---- MODULE Spec2Model ----
(***************************************************************************)
(* Model of mirdata/datasets/phenicx_anechoic.py: the MultiTrack of one    *)
(* piece of the PHENICX-Anechoic dataset, its instrument/section sets, the *)
(* selection of sub-tracks by instrument name, the audio mixes and the     *)
(* merged scores.                                                          *)
(*                                                                         *)
(* Strings are sequences of one-character strings, so that substring       *)
(* search, case folding, split, replace and lexicographic sorting are      *)
(* computed the way Python computes them.                                  *)
(*                                                                         *)
(* The module under src/ does not import as it stands (Optional, Tuple,    *)
(* BinaryIO, io and caches_property are never imported, load_audio reads   *)
(* audio_path while its parameter is called fhandle, and MultiTrack calls  *)
(* Track with three arguments).  The model follows the bodies of the       *)
(* methods: load_audio's audio_path is its argument, Track(k) is built     *)
(* from the sub-track id k.                                                *)
(***************************************************************************)
EXTENDS Integers, Sequences, FiniteSets, TLC

VARIABLES index, disk, mt, last,
          computed   \* history: the properties the instance has computed

vars == <<index, disk, mt, last, computed>>

(***************************************************************************)
(* Bounds of the model.                                                    *)
(***************************************************************************)
MaxInstruments == 3   \* instruments of the piece in the index
MaxRequest == 2       \* names in one request list
MaxLen == 2           \* samples in one decoded audio file
MaxRows == 4          \* rows in the score files of one piece
MaxTime == 1          \* start times are 0..MaxTime
MaxWeight == 2        \* mixing weights are 1..MaxWeight

(***************************************************************************)
(* Python strings.                                                         *)
(***************************************************************************)
\* the characters in use, in code-point order
ASCII ==
  << "-", ".", "/", "H", "O", "T", "V", "_",
     "a", "b", "c", "d", "e", "f", "g", "h", "i", "j", "k", "l", "m",
     "n", "o", "p", "q", "r", "s", "t", "u", "v", "w", "x", "y", "z", "|" >>

Ord(c) == CHOOSE i \in 1..Len(ASCII) : ASCII[i] = c

\* s1 < s2 on str
StrLess(s1, s2) ==
  \E i \in 1..(Len(s1) + 1) :
    /\ i <= Len(s2)
    /\ \A j \in 1..(i - 1) : s1[j] = s2[j]
    /\ \/ i = Len(s1) + 1
       \/ Ord(s1[i]) < Ord(s2[i])

\* case folding of re.IGNORECASE
LowerChar(c) ==
  CASE c = "H" -> "h"
    [] c = "O" -> "o"
    [] c = "T" -> "t"
    [] c = "V" -> "v"
    [] OTHER -> c

Lower(s) == [i \in 1..Len(s) |-> LowerChar(s[i])]

\* sub occurs in s at position i
OccursAt(sub, s, i) ==
  /\ i + Len(sub) - 1 <= Len(s)
  /\ \A j \in 1..Len(sub) : s[i + j - 1] = sub[j]

\* sub in s
StrIn(sub, s) == \E i \in 1..(Len(s) + 1) : OccursAt(sub, s, i)

\* s.replace(old, ""), old not empty
RECURSIVE StrRemove(_, _)
StrRemove(s, old) ==
  IF s = <<>> THEN <<>>
  ELSE IF OccursAt(old, s, 1)
       THEN StrRemove(SubSeq(s, Len(old) + 1, Len(s)), old)
       ELSE <<Head(s)>> \o StrRemove(Tail(s), old)

\* s.split(sep), sep one character
RECURSIVE StrSplit(_, _)
StrSplit(s, sep) ==
  IF \A i \in 1..Len(s) : s[i] # sep THEN <<s>>
  ELSE LET i == CHOOSE k \in 1..Len(s) :
                  s[k] = sep /\ \A j \in 1..(k - 1) : s[j] # sep
       IN  <<SubSeq(s, 1, i - 1)>> \o StrSplit(SubSeq(s, i + 1, Len(s)), sep)

\* sep.join(strs)
RECURSIVE StrJoin(_, _)
StrJoin(strs, sep) ==
  IF strs = <<>> THEN <<>>
  ELSE IF Len(strs) = 1 THEN strs[1]
  ELSE strs[1] \o sep \o StrJoin(Tail(strs), sep)

\* the search without re.IGNORECASE
RegexSearch_CaseSensitive(pattern, s) ==
  LET alts == StrSplit(pattern, "|")
  IN  \E k \in 1..Len(alts) : StrIn(alts[k], s)

\* re.compile(pattern, re.IGNORECASE).search(s) for a pattern of literal
\* alternatives separated by |
RegexSearch(pattern, s) ==
  LET alts == StrSplit(pattern, "|")
  IN  \E k \in 1..Len(alts) : StrIn(Lower(alts[k]), Lower(s))

\* sorted(strs): insertion of each element after the elements not greater
RECURSIVE Sorted(_)
Sorted(strs) ==
  IF strs = <<>> THEN <<>>
  ELSE LET rest == Sorted(SubSeq(strs, 1, Len(strs) - 1))
           x == strs[Len(strs)]
           n == Cardinality({i \in 1..Len(rest) : ~StrLess(x, rest[i])})
       IN  SubSeq(rest, 1, n) \o <<x>> \o SubSeq(rest, n + 1, Len(rest))

\* the elements of a sequence
Range(s) == {s[i] : i \in 1..Len(s)}

\* list(set(strs)): the distinct elements, in some order
RECURSIVE SetToSeq(_)
SetToSeq(S) ==
  IF S = {} THEN <<>>
  ELSE LET x == CHOOSE y \in S : TRUE IN <<x>> \o SetToSeq(S \ {x})

(***************************************************************************)
(* The instrument names and the section map.                               *)
(***************************************************************************)
doublebass == <<"d", "o", "u", "b", "l", "e", "b", "a", "s", "s">>
cello == <<"c", "e", "l", "l", "o">>
clarinet == <<"c", "l", "a", "r", "i", "n", "e", "t">>
viola == <<"v", "i", "o", "l", "a">>
violin == <<"v", "i", "o", "l", "i", "n">>
oboe == <<"o", "b", "o", "e">>
flute == <<"f", "l", "u", "t", "e">>
trumpet == <<"t", "r", "u", "m", "p", "e", "t">>
bassoon == <<"b", "a", "s", "s", "o", "o", "n">>
horn == <<"h", "o", "r", "n">>
tuba == <<"t", "u", "b", "a">>

strings == <<"s", "t", "r", "i", "n", "g", "s">>
woodwinds == <<"w", "o", "o", "d", "w", "i", "n", "d", "s">>
brass == <<"b", "r", "a", "s", "s">>

\* DATASET_SECTIONS.items(), in the order of the dict literal
DATASET_SECTIONS ==
  << <<doublebass, strings>>, <<cello, strings>>, <<clarinet, woodwinds>>,
     <<viola, strings>>, <<violin, strings>>, <<oboe, woodwinds>>,
     <<flute, woodwinds>>, <<trumpet, brass>>, <<bassoon, woodwinds>>,
     <<horn, brass>> >>

(***************************************************************************)
(* DATA.index['multitracks']: the manifest.  One entry per piece id: the   *)
(* keys of the entry in file order, the sub-tracks under 'tracks', and the *)
(* [path, checksum] pair under every 'score-<instrument>' key.             *)
(***************************************************************************)
tracks_key == <<"t", "r", "a", "c", "k", "s">>
score_prefix == <<"s", "c", "o", "r", "e", "-">>
audio_prefix == <<"a", "u", "d", "i", "o", "_">>
notes_key == <<"n", "o", "t", "e", "s">>
notes_original_key == notes_key \o <<"_", "o", "r", "i", "g", "i", "n", "a", "l">>
txt == <<".", "t", "x", "t">>

mozart == <<"m", "o", "z", "a", "r", "t">>
mahler == <<"m", "a", "h", "l", "e", "r">>

\* the instruments the pieces of the model are made of
PoolInstruments == {violin, oboe, trumpet, horn}

UpperChar(c) ==
  CASE c = "h" -> "H"
    [] c = "o" -> "O"
    [] c = "t" -> "T"
    [] c = "v" -> "V"
    [] OTHER -> c

Capitalized(s) == <<UpperChar(s[1])>> \o Tail(s)

\* composite sub-track id <piece>-<instrument>
TrackId(piece, instrument) == piece \o <<"-">> \o instrument

ScorePath(piece, instrument) == piece \o <<"/">> \o instrument \o txt

AudioPath(tid, voice) == <<tid, voice>>

\* the paths of one sub-track, key by key
TrackPaths(tid, n_voices) ==
  [i \in 1..n_voices |-> <<audio_prefix \o <<ASCII[8 + i]>>, AudioPath(tid, i)>>]
    \o << <<notes_key, <<tid, notes_key>> >>,
          <<notes_original_key, <<tid, notes_original_key>> >> >>

\* the score keys of a piece, in the order of the instruments in
\* DATASET_SECTIONS
ScoreKeys(S) ==
  LET F[i \in 0..Len(DATASET_SECTIONS)] ==
        IF i = 0 THEN <<>>
        ELSE IF DATASET_SECTIONS[i][1] \in S
             THEN F[i - 1] \o <<score_prefix \o DATASET_SECTIONS[i][1]>>
             ELSE F[i - 1]
  IN  F[Len(DATASET_SECTIONS)]

\* the entry of a piece with the instruments S: those of lower have a
\* sub-track <piece>-<instrument>, those of upper one whose instrument is
\* capitalized, those of multi two voices per sub-track
IndexEntry(piece, S, lower, upper, multi) ==
  LET tids == {TrackId(piece, x) : x \in lower}
                \cup {TrackId(piece, Capitalized(x)) : x \in upper}
      voices(tid) ==
        IF \E x \in multi : tid \in {TrackId(piece, x), TrackId(piece, Capitalized(x))}
        THEN 2 ELSE 1
  IN  [keys |-> <<tracks_key>> \o ScoreKeys(S),
       tracks |-> [tid \in tids |-> TrackPaths(tid, voices(tid))],
       score |-> [k \in Range(ScoreKeys(S)) |->
                    <<ScorePath(piece, StrRemove(k, score_prefix)), "md5">>]]

(***************************************************************************)
(* Track.                                                                  *)
(***************************************************************************)
NoObject == [mtrack_id |-> <<>>]

\* Track.__init__
Track(piece_entry, track_id) ==
  LET track_paths == piece_entry.tracks[track_id]
      F[i \in 0..Len(track_paths)] ==
        IF i = 0 THEN <<>>
        ELSE IF StrIn(audio_prefix, track_paths[i][1])
             THEN F[i - 1] \o <<track_paths[i][2]>>
             ELSE F[i - 1]
      audio_paths == F[Len(track_paths)]
      path_of(key) == track_paths[CHOOSE i \in 1..Len(track_paths) :
                                    track_paths[i][1] = key][2]
  IN  [track_id |-> track_id,
       instrument |-> StrSplit(track_id, "-")[2],
       piece |-> StrSplit(track_id, "-")[1],
       audio_paths |-> audio_paths,
       n_voices |-> Len(audio_paths),
       notes_path |-> path_of(notes_key),
       notes_original_path |-> path_of(notes_original_key)]

(***************************************************************************)
(* MultiTrack.                                                             *)
(***************************************************************************)
\* the instruments in the order of the keys, the sort left out
Instruments_Unsorted(piece_entry) ==
  LET keys == piece_entry.keys
      F[i \in 0..Len(keys)] ==
        IF i = 0 THEN <<>>
        ELSE IF StrIn(score_prefix, keys[i])
             THEN F[i - 1] \o <<StrRemove(keys[i], score_prefix)>>
             ELSE F[i - 1]
  IN  F[Len(keys)]

\* the keys of the entry that hold a score, 'score-' removed, sorted
Instruments(piece_entry) ==
  LET keys == piece_entry.keys
      F[i \in 0..Len(keys)] ==
        IF i = 0 THEN <<>>
        ELSE IF StrIn(score_prefix, keys[i])
             THEN F[i - 1] \o <<StrRemove(keys[i], score_prefix)>>
             ELSE F[i - 1]
  IN  Sorted(F[Len(keys)])

\* the sections of the instruments, sorted, each once
Sections(instruments) ==
  Sorted(SetToSeq({DATASET_SECTIONS[i][2] :
                     i \in {j \in 1..Len(DATASET_SECTIONS) :
                              DATASET_SECTIONS[j][1] \in Range(instruments)}}))

\* MultiTrack.__init__ after the check of the id
NewMultiTrack(mtrack_id) ==
  LET piece_entry == index[mtrack_id]
      instruments == Instruments(piece_entry)
  IN  [mtrack_id |-> mtrack_id,
       mtrack_ids |-> Sorted(SetToSeq(DOMAIN piece_entry.tracks)),
       tracks |-> [k \in DOMAIN piece_entry.tracks |-> Track(piece_entry, k)],
       track_audio_property |-> "audio",
       instruments |-> instruments,
       sections |-> Sections(instruments)]

Failure(error) == [ok |-> FALSE, error |-> error, value |-> <<>>]
Success(value) == [ok |-> TRUE, error |-> "none", value |-> value]

\* no call is in progress and no result is waiting for the caller
NoCall == [op |-> "none", args |-> <<>>, outcome |-> Success(<<>>)]

MtrackIds == {mozart, mahler}

MultiTrackInit(mtrack_id) ==
  /\ last = NoCall
  /\ IF mtrack_id \notin DOMAIN index
     THEN /\ mt' = NoObject
          /\ last' = [op |-> "MultiTrack", args |-> <<mtrack_id>>,
                      outcome |-> Failure("ValueError")]
     ELSE /\ mt' = NewMultiTrack(mtrack_id)
          /\ last' = [op |-> "MultiTrack", args |-> <<mtrack_id>>,
                      outcome |-> Success(mtrack_id)]
  /\ computed' = {}
  /\ UNCHANGED <<index, disk>>

\* get_trackids: instruments is a str, request.str, or a list of str
AsList(request) == IF request.str THEN <<request.v>> ELSE request.v

get_trackids(self, request) ==
  LET instruments == AsList(request)
  IN  IF ~(\A i \in 1..Len(instruments) : instruments[i] \in Range(self.instruments))
      THEN Failure("AssertionError")
      ELSE LET pattern == StrJoin(instruments, <<"|">>)
               ids == self.mtrack_ids
               F[i \in 0..Len(ids)] ==
                 IF i = 0 THEN <<>>
                 ELSE IF RegexSearch(pattern, ids[i])
                      THEN F[i - 1] \o <<ids[i]>>
                      ELSE F[i - 1]
           IN  Success(F[Len(ids)])

\* the names asked for: the instruments of the piece and one it has not
RequestNames(self) == Range(self.instruments) \cup {tuba}

Lists(S, n) == UNION {[1..k -> S] : k \in 0..n}

Requests(self) ==
  {[str |-> TRUE, v |-> x] : x \in RequestNames(self)}
    \cup {[str |-> FALSE, v |-> l] : l \in Lists(RequestNames(self), MaxRequest)}

GetTrackids(request) ==
  /\ last = NoCall
  /\ mt # NoObject
  /\ last' = [op |-> "get_trackids", args |-> <<request>>,
              outcome |-> get_trackids(mt, request)]
  /\ UNCHANGED <<index, disk, mt, computed>>

(***************************************************************************)
(* Audio.  A file on disk is missing or decodes to a buffer of samples.    *)
(* A mixed signal is a sequence of rationals <<numerator, denominator>> in *)
(* lowest terms.                                                           *)
(***************************************************************************)
RECURSIVE GCD(_, _)
GCD(a, b) == IF b = 0 THEN a ELSE GCD(b, a % b)

Rational(n, d) == LET g == GCD(IF n < 0 THEN -n ELSE n, d) IN <<n \div g, d \div g>>

Max(S) == CHOOSE x \in S : \A y \in S : y <= x

\* a missing file read as silence
load_audio_Silent(audio_path) ==
  IF ~disk.audio[audio_path].exists
  THEN Success(<<<<0>>, 44100>>)
  ELSE Success(<<disk.audio[audio_path].samples, disk.audio[audio_path].sr>>)

\* load_audio
load_audio(audio_path) ==
  IF ~disk.audio[audio_path].exists
  THEN Failure("IOError")
  ELSE Success(<<disk.audio[audio_path].samples, disk.audio[audio_path].sr>>)

\* audio_mix += audio on one-dimensional arrays: same length, or a single
\* sample that is broadcast; any other pair of shapes raises
InPlaceAdd(audio_mix, audio) ==
  IF Len(audio) = Len(audio_mix)
  THEN Success([i \in 1..Len(audio_mix) |-> audio_mix[i] + audio[i]])
  ELSE IF Len(audio) = 1
       THEN Success([i \in 1..Len(audio_mix) |-> audio_mix[i] + audio[1]])
       ELSE Failure("ValueError")

\* Track.audio
Track_audio(track) ==
  LET first == load_audio(track.audio_paths[1])
      F[i \in 1..track.n_voices] ==
        IF i = 1 THEN first
        ELSE IF ~F[i - 1].ok THEN F[i - 1]
        ELSE LET loaded == load_audio(track.audio_paths[i])
             IN  IF ~loaded.ok THEN loaded
                 ELSE LET added == InPlaceAdd(F[i - 1].value[1], loaded.value[1])
                      IN  IF ~added.ok THEN added
                          ELSE Success(<<added.value, F[i - 1].value[2]>>)
  IN  F[track.n_voices]

\* Track.get_audio_voice: id_voice counts from 0
get_audio_voice(track, id_voice) ==
  IF id_voice \notin 0..(Len(track.audio_paths) - 1)
  THEN Failure("IndexError")
  ELSE load_audio(track.audio_paths[id_voice + 1])

None == [none |-> TRUE, w |-> <<>>]
Some(w) == [none |-> FALSE, w |-> w]

\* core.MultiTrack.get_target: the audio of the tracks of track_keys,
\* scaled by the weights, summed, divided by their number when average;
\* buffers of unequal length fail when enforce_length and are extended
\* with zeros to the longest otherwise
get_target(self, track_keys, weights, average, enforce_length) ==
  LET n == Len(track_keys)
      loaded == [i \in 1..n |-> Track_audio(self.tracks[track_keys[i]])]
  IN  IF \E i \in 1..n : ~loaded[i].ok
      THEN loaded[CHOOSE i \in 1..n :
                    ~loaded[i].ok /\ \A j \in 1..(i - 1) : loaded[j].ok]
      ELSE LET signals == [i \in 1..n |-> loaded[i].value[1]]
               lengths == {Len(signals[i]) : i \in 1..n}
           IN  IF Cardinality(lengths) > 1 /\ enforce_length
               THEN Failure("LengthMismatch")
               ELSE LET N == Max(lengths)
                        w == IF weights.none THEN [i \in 1..n |-> 1] ELSE weights.w
                        padded(i, j) == IF j <= Len(signals[i]) THEN signals[i][j] ELSE 0
                        S[j \in 1..N, i \in 0..n] ==
                          IF i = 0 THEN 0 ELSE S[j, i - 1] + w[i] * padded(i, j)
                    IN  Success([j \in 1..N |->
                                   Rational(S[j, n], IF average THEN n ELSE 1)])

\* the mix of every sub-track of the piece whatever the instruments
get_audio_mix_instruments_AllTracks(self, request, weights, average, enforce_length) ==
  LET ids == get_trackids(self, request)
  IN  IF ~ids.ok THEN ids
      ELSE get_target(self, self.mtrack_ids, weights, average, enforce_length)

\* the mix that enforces the length whatever the caller asks
get_audio_mix_instruments_Enforcing(self, request, weights, average, enforce_length) ==
  LET ids == get_trackids(self, request)
  IN  IF ~ids.ok THEN ids
      ELSE get_target(self, ids.value, weights, average, TRUE)

\* get_audio_mix_instruments
get_audio_mix_instruments(self, request, weights, average, enforce_length) ==
  LET ids == get_trackids(self, request)
  IN  IF ~ids.ok THEN ids
      ELSE get_target(self, ids.value, weights, average, enforce_length)

\* the full mix with the default enforce_length
audio_mix_Enforcing(self) ==
  get_audio_mix_instruments(self, [str |-> FALSE, v |-> self.instruments],
                            None, TRUE, TRUE)

\* the full mix as a sum
audio_mix_Sum(self) ==
  get_audio_mix_instruments(self, [str |-> FALSE, v |-> self.instruments],
                            None, FALSE, FALSE)

\* the audio_mix property
audio_mix(self) ==
  get_audio_mix_instruments(self, [str |-> FALSE, v |-> self.instruments],
                            None, TRUE, FALSE)

\* np.stack(arrays, axis=-1) of one-dimensional arrays
Stack(arrays) ==
  IF arrays = <<>> THEN Failure("ValueError")
  ELSE IF \E k \in 1..Len(arrays) : Len(arrays[k]) # Len(arrays[1])
       THEN Failure("ValueError")
       ELSE Success([j \in 1..Len(arrays[1]) |->
                       [k \in 1..Len(arrays) |-> arrays[k][j]]])

\* [f(x) for x in xs] followed by np.stack: the first call that raises
\* ends the comprehension
StackOf(mixes) ==
  IF \E k \in 1..Len(mixes) : ~mixes[k].ok
  THEN mixes[CHOOSE k \in 1..Len(mixes) :
               ~mixes[k].ok /\ \A j \in 1..(k - 1) : mixes[j].ok]
  ELSE Stack([k \in 1..Len(mixes) |-> mixes[k].value])

\* the stack that hands the caller's enforce_length to the mixes
get_audio_instruments_PassingLength(self, request, weights, average, enforce_length) ==
  LET instruments == AsList(request)
  IN  StackOf([k \in 1..Len(instruments) |->
                 get_audio_mix_instruments(self, [str |-> TRUE, v |-> instruments[k]],
                                           weights, average, enforce_length)])

\* get_audio_instruments
get_audio_instruments(self, request, weights, average, enforce_length) ==
  LET instruments == AsList(request)
  IN  StackOf([k \in 1..Len(instruments) |->
                 get_audio_mix_instruments(self, [str |-> TRUE, v |-> instruments[k]],
                                           weights, average, TRUE)])

\* the instruments of a section, in the order of DATASET_SECTIONS
InstrumentsOfSection(section) ==
  LET F[i \in 0..Len(DATASET_SECTIONS)] ==
        IF i = 0 THEN <<>>
        ELSE IF DATASET_SECTIONS[i][2] = section
             THEN F[i - 1] \o <<DATASET_SECTIONS[i][1]>>
             ELSE F[i - 1]
  IN  F[Len(DATASET_SECTIONS)]

\* get_audio_sections
get_audio_sections(self, request, weights, average) ==
  LET sections == AsList(request)
      instruments_for_sections ==
        [k \in 1..Len(sections) |-> InstrumentsOfSection(sections[k])]
  IN  StackOf([k \in 1..Len(sections) |->
                 get_audio_mix_instruments(self,
                                           [str |-> FALSE, v |-> instruments_for_sections[k]],
                                           weights, average, TRUE)])

(***************************************************************************)
(* Scores.  A score file is missing or holds rows start,end,note; every    *)
(* line but possibly the last one ends with a newline.                     *)
(***************************************************************************)
\* f.readlines() split at the commas: the third field keeps the newline
Lines(file) ==
  [i \in 1..Len(file.rows) |->
     << file.rows[i].start, file.rows[i].end,
        IF i < Len(file.rows) \/ file.eof_newline
        THEN <<file.rows[i].note, "\n">>
        ELSE <<file.rows[i].note>> >>]

\* field.strip('\n') of a field with at most one newline, at its end
StripNewline(field) ==
  IF field # <<>> /\ field[Len(field)] = "\n"
  THEN SubSeq(field, 1, Len(field) - 1)
  ELSE field

\* the permutations np.argsort may return: each orders the keys
RECURSIVE ArgSortsOf(_, _)
ArgSortsOf(keys, remaining) ==
  IF remaining = {} THEN {<<>>}
  ELSE UNION {{<<i>> \o rest : rest \in ArgSortsOf(keys, remaining \ {i})} :
                i \in {j \in remaining : \A k \in remaining : keys[j] <= keys[k]}}

ArgSorts(keys) == ArgSortsOf(keys, 1..Len(keys))

RECURSIVE Concatenate(_)
Concatenate(arrays) ==
  IF arrays = <<>> THEN <<>> ELSE Head(arrays) \o Concatenate(Tail(arrays))

\* the paths of the score keys whose path matches the pattern, in key order
ScorePaths(piece_entry, pattern) ==
  LET keys == piece_entry.keys
      F[i \in 0..Len(keys)] ==
        IF i = 0 THEN <<>>
        ELSE IF StrIn(score_prefix, keys[i])
                  /\ RegexSearch(pattern, piece_entry.score[keys[i]][1])
             THEN F[i - 1] \o <<piece_entry.score[keys[i]][1]>>
             ELSE F[i - 1]
  IN  F[Len(keys)]

\* what reading one score file gives: np.loadtxt returns a two-dimensional
\* array only for two rows or more, so times[:, 0] raises on shorter files
ReadScore(path) ==
  IF ~disk.score[path].exists THEN Failure("IOError")
  ELSE LET lines == Lines(disk.score[path])
       IN  IF Len(lines) < 2 THEN Failure("IndexError")
           ELSE Success([start_times |-> [i \in 1..Len(lines) |-> lines[i][1]],
                         end_times |-> [i \in 1..Len(lines) |-> lines[i][2]],
                         score |-> [i \in 1..Len(lines) |->
                                      StripNewline(lines[i][3])[1]]])

\* get_score_mix_instruments: the outcomes the call can have
get_score_mix_instruments(self, request) ==
  LET instruments == AsList(request)
  IN  IF ~(\A i \in 1..Len(instruments) : instruments[i] \in Range(self.instruments))
      THEN {Failure("AssertionError")}
      ELSE LET score_paths == ScorePaths(index[self.mtrack_id],
                                         StrJoin(instruments, <<"|">>))
               read == [k \in 1..Len(score_paths) |-> ReadScore(score_paths[k])]
           IN  IF \E k \in 1..Len(read) : ~read[k].ok
               THEN {read[CHOOSE k \in 1..Len(read) :
                            ~read[k].ok /\ \A j \in 1..(k - 1) : read[j].ok]}
               ELSE IF read = <<>> THEN {Failure("ValueError")}
               ELSE LET start_times ==
                          Concatenate([k \in 1..Len(read) |-> read[k].value.start_times])
                        end_times ==
                          Concatenate([k \in 1..Len(read) |-> read[k].value.end_times])
                        score ==
                          Concatenate([k \in 1..Len(read) |-> read[k].value.score])
                    IN  {Success([start_times |-> [i \in 1..Len(ind) |-> start_times[ind[i]]],
                                  end_times |-> [i \in 1..Len(ind) |-> end_times[ind[i]]],
                                  event |-> [i \in 1..Len(ind) |-> score[ind[i]]]]) :
                           ind \in ArgSorts(start_times)}

\* the body of scores: one get_score_mix_instruments for each instrument of
\* the piece, in the order of instruments; the first call that raises ends
\* the comprehension
scores(self) ==
  LET n == Len(self.instruments)
      parts == [k \in 1..n |->
                  get_score_mix_instruments(self, [str |-> TRUE, v |-> self.instruments[k]])]
      failed == {k \in 1..n : \E outcome \in parts[k] : ~outcome.ok}
  IN  IF failed # {}
      THEN parts[CHOOSE k \in failed : \A j \in failed : k <= j]
      ELSE {Success(value) :
              value \in {f \in [1..n -> UNION {{outcome.value : outcome \in parts[k]} :
                                                  k \in 1..n}] :
                           \A k \in 1..n : Success(f[k]) \in parts[k]}}

(***************************************************************************)
(* The calls.                                                              *)
(***************************************************************************)
SectionNames == {brass, strings, woodwinds}

SectionRequests ==
  {[str |-> TRUE, v |-> x] : x \in SectionNames}
    \cup {[str |-> FALSE, v |-> l] : l \in Lists(SectionNames, MaxRequest)}

\* the weights tried with a list of requests: none, or one weight for each
\* sub-track when every request selects the same number of sub-tracks
WeightsFor(self, requests) ==
  LET ids == [k \in 1..Len(requests) |-> get_trackids(self, requests[k])]
  IN  IF /\ requests # <<>>
         /\ \A k \in 1..Len(ids) :
              ids[k].ok /\ Len(ids[k].value) = Len(ids[1].value)
      THEN {None} \cup {Some(w) : w \in [1..Len(ids[1].value) -> 1..MaxWeight]}
      ELSE {None}

GetAudioMixInstruments(request, average, enforce_length) ==
  /\ last = NoCall
  /\ mt # NoObject
  /\ \E weights \in WeightsFor(mt, <<request>>) :
       last' = [op |-> "get_audio_mix_instruments",
                args |-> <<request, weights, average, enforce_length>>,
                outcome |-> get_audio_mix_instruments(mt, request, weights,
                                                      average, enforce_length)]
  /\ UNCHANGED <<index, disk, mt, computed>>

AudioMix ==
  /\ last = NoCall
  /\ mt # NoObject
  /\ last' = [op |-> "audio_mix", args |-> <<>>, outcome |-> audio_mix(mt)]
  /\ computed' = IF audio_mix(mt).ok THEN computed \cup {"audio_mix"} ELSE computed
  /\ UNCHANGED <<index, disk, mt>>

GetAudioInstruments(request, average, enforce_length) ==
  /\ last = NoCall
  /\ mt # NoObject
  /\ \E weights \in WeightsFor(mt, [k \in 1..Len(AsList(request)) |->
                                     [str |-> TRUE, v |-> AsList(request)[k]]]) :
       last' = [op |-> "get_audio_instruments",
                args |-> <<request, weights, average, enforce_length>>,
                outcome |-> get_audio_instruments(mt, request, weights,
                                                  average, enforce_length)]
  /\ UNCHANGED <<index, disk, mt, computed>>

GetAudioSections(request, average) ==
  /\ last = NoCall
  /\ mt # NoObject
  /\ \E weights \in WeightsFor(mt, [k \in 1..Len(AsList(request)) |->
                                     [str |-> FALSE,
                                      v |-> InstrumentsOfSection(AsList(request)[k])]]) :
       last' = [op |-> "get_audio_sections",
                args |-> <<request, weights, average>>,
                outcome |-> get_audio_sections(mt, request, weights, average)]
  /\ UNCHANGED <<index, disk, mt, computed>>

GetScoreMixInstruments(request) ==
  /\ last = NoCall
  /\ mt # NoObject
  /\ \E outcome \in get_score_mix_instruments(mt, request) :
       last' = [op |-> "get_score_mix_instruments", args |-> <<request>>,
                outcome |-> outcome]
  /\ UNCHANGED <<index, disk, mt, computed>>

\* Track.audio of a sub-track of the piece
TrackAudio(track_id) ==
  /\ last = NoCall
  /\ mt # NoObject
  /\ last' = [op |-> "Track.audio", args |-> <<track_id>>,
              outcome |-> Track_audio(mt.tracks[track_id])]
  /\ UNCHANGED <<index, disk, mt, computed>>

\* Track.get_audio_voice of a sub-track of the piece
GetAudioVoice(track_id, id_voice) ==
  /\ last = NoCall
  /\ mt # NoObject
  /\ last' = [op |-> "get_audio_voice", args |-> <<track_id, id_voice>>,
              outcome |-> get_audio_voice(mt.tracks[track_id], id_voice)]
  /\ UNCHANGED <<index, disk, mt, computed>>

\* the attribute the decorator of scores keeps in the instance
scores_key == "scores"

\* self.__dict__[scores_key] = value
SetAttribute(self, key, value) ==
  [f \in DOMAIN self \cup {key} |-> IF f = key THEN value ELSE self[f]]

\* an access to scores: the decorator runs the body when the instance has
\* no value yet and keeps the value the body returns; a body that raises
\* leaves nothing behind
Scores ==
  /\ last = NoCall
  /\ mt # NoObject
  /\ IF scores_key \in DOMAIN mt
     THEN /\ last' = [op |-> "scores", args |-> <<>>,
                      outcome |-> Success(mt[scores_key]), computed |-> FALSE]
          /\ UNCHANGED <<mt, computed>>
     ELSE \E outcome \in scores(mt) :
            /\ last' = [op |-> "scores", args |-> <<>>,
                        outcome |-> outcome, computed |-> TRUE]
            /\ mt' = IF outcome.ok THEN SetAttribute(mt, scores_key, outcome.value)
                     ELSE mt
            /\ computed' = IF outcome.ok THEN computed \cup {"scores"} ELSE computed
  /\ UNCHANGED <<index, disk>>

(***************************************************************************)
(* The manifests and the disks of the model.                               *)
(***************************************************************************)
\* every piece of at most MaxInstruments instruments, each instrument with
\* a lower-case sub-track, a capitalized one, or both
Manifests ==
  {[p \in {mozart} |-> IndexEntry(mozart, lower \cup upper, lower, upper, {})] :
     lower \in SUBSET PoolInstruments, upper \in SUBSET PoolInstruments}

\* a piece has between one and MaxInstruments instruments
WellFormed(manifest) ==
  \A p \in DOMAIN manifest :
    Cardinality(DOMAIN manifest[p].score) \in 1..MaxInstruments

\* the pieces whose audio is explored: at most three audio files each
AudioManifests ==
  {[p \in {mozart} |-> IndexEntry(mozart, {violin}, {violin}, {violin}, {})],
   [p \in {mozart} |-> IndexEntry(mozart, {horn, violin}, {horn, violin}, {}, {horn})],
   [p \in {mozart} |-> IndexEntry(mozart, {horn, violin}, {horn, violin}, {violin}, {})],
   [p \in {mozart} |-> IndexEntry(mozart, {horn, trumpet}, {horn, trumpet}, {}, {})]}

\* the pieces whose scores are explored
ScoreManifests ==
  {[p \in {mozart} |-> IndexEntry(mozart, {violin}, {violin}, {}, {})],
   [p \in {mozart} |-> IndexEntry(mozart, {horn, violin}, {horn, violin}, {}, {})]}

AudioPathsOfTrack(track_paths) ==
  {track_paths[i][2] :
     i \in {j \in 1..Len(track_paths) : StrIn(audio_prefix, track_paths[j][1])}}

AudioPathsOfPiece(piece_entry) ==
  UNION {AudioPathsOfTrack(piece_entry.tracks[tid]) : tid \in DOMAIN piece_entry.tracks}

AudioPathsOf(manifest) ==
  UNION {AudioPathsOfPiece(manifest[p]) : p \in DOMAIN manifest}

ScorePathsOf(manifest) ==
  UNION {{manifest[p].score[k][1] : k \in DOMAIN manifest[p].score} :
           p \in DOMAIN manifest}

MissingFile == [exists |-> FALSE]

\* an audio file of n samples; its samples all have the level of the file
AudioFile(n, level) ==
  IF n = 0 THEN MissingFile
  ELSE [exists |-> TRUE, samples |-> [i \in 1..n |-> level], sr |-> 44100]

\* the audio files of the paths: lengths[path] samples, none for a missing
\* file, at a level that tells the files apart
AudioDisk(paths, lengths) ==
  LET order == SetToSeq(paths)
  IN  [path \in paths |->
         AudioFile(lengths[path], CHOOSE i \in 1..Len(order) : order[i] = path)]

Notes == <<"D4", "C4">>

\* the row of a line that starts at t: the notes alternate, a D4 lasts
\* longer than a C4
Row(t, line) ==
  LET note == Notes[((line - 1) % Len(Notes)) + 1]
  IN  [start |-> t, end |-> t + (IF note = "C4" THEN 1 ELSE 3), note |-> note]

Rows == {Row(t, line) : t \in 0..MaxTime, line \in 1..Len(Notes)}

\* the score files of the paths: the start times of all cut into one run
\* of lines for each path, the files of missing absent
ScoreDisk(paths, all, cuts, missing, nl) ==
  LET order == Sorted(SetToSeq(paths))
      from(k) == IF k = 1 THEN 1 ELSE cuts[k - 1] + 1
      to(k) == IF k = Len(order) THEN Len(all) ELSE cuts[k]
  IN  [path \in paths |->
         LET k == CHOOSE i \in 1..Len(order) : order[i] = path
         IN  IF path \in missing THEN MissingFile
             ELSE [exists |-> TRUE,
                   rows |-> [i \in 1..(to(k) - from(k) + 1) |->
                               Row(all[from(k) + i - 1], i)],
                   eof_newline |-> nl]]

DefaultAudio(manifest) ==
  AudioDisk(AudioPathsOf(manifest), [path \in AudioPathsOf(manifest) |-> 1])

DefaultScore(manifest) ==
  [path \in ScorePathsOf(manifest) |->
     [exists |-> TRUE,
      rows |-> <<Row(0, 1), Row(1, 2)>>,
      eof_newline |-> TRUE]]

\* the files of the dataset in place
Init ==
  /\ index \in AudioManifests \cup ScoreManifests
  /\ disk = [audio |-> DefaultAudio(index), score |-> DefaultScore(index)]
  /\ mt = NoObject
  /\ last = NoCall
  /\ computed = {}

\* any manifest
InitIds ==
  /\ index \in {m \in Manifests : WellFormed(m)}
  /\ disk = [audio |-> DefaultAudio(index), score |-> DefaultScore(index)]
  /\ mt = NoObject
  /\ last = NoCall
  /\ computed = {}

\* any audio files
InitAudio ==
  /\ index \in AudioManifests
  /\ \E lengths \in [AudioPathsOf(index) -> 0..MaxLen] :
       disk = [audio |-> AudioDisk(AudioPathsOf(index), lengths),
               score |-> DefaultScore(index)]
  /\ mt = NoObject
  /\ last = NoCall
  /\ computed = {}

\* any score files of at most MaxRows rows together
InitScore ==
  /\ index \in ScoreManifests
  /\ \E all \in Lists(0..MaxTime, MaxRows), missing \in SUBSET ScorePathsOf(index),
        nl \in BOOLEAN :
       \E cuts \in [1..(Cardinality(ScorePathsOf(index)) - 1) -> 0..Len(all)] :
         /\ \A i \in 1..(Cardinality(ScorePathsOf(index)) - 2) : cuts[i] <= cuts[i + 1]
         /\ disk = [audio |-> DefaultAudio(index),
                    score |-> ScoreDisk(ScorePathsOf(index), all, cuts, missing, nl)]
  /\ mt = NoObject
  /\ last = NoCall
  /\ computed = {}

\* the pieces whose files come and go
FileManifests ==
  ScoreManifests
    \cup {[p \in {mozart} |-> IndexEntry(mozart, {horn, violin}, {horn, violin}, {}, {horn})]}

\* any of the files missing, the others as they are in the dataset
InitFiles ==
  /\ index \in FileManifests
  /\ \E audio \in SUBSET AudioPathsOf(index), score \in SUBSET ScorePathsOf(index) :
       disk = [audio |-> [path \in AudioPathsOf(index) |->
                            IF path \in audio THEN MissingFile
                            ELSE DefaultAudio(index)[path]],
               score |-> [path \in ScorePathsOf(index) |->
                            IF path \in score THEN MissingFile
                            ELSE DefaultScore(index)[path]]]
  /\ mt = NoObject
  /\ last = NoCall
  /\ computed = {}

\* the caller takes the result: calls are synchronous, one at a time
Return ==
  /\ last # NoCall
  /\ last' = NoCall
  /\ UNCHANGED <<index, disk, mt, computed>>

Construct == \E mtrack_id \in MtrackIds : MultiTrackInit(mtrack_id)
CallTrackids ==
  /\ last = NoCall
  /\ mt # NoObject
  /\ \E request \in Requests(mt) : GetTrackids(request)
CallAudioMixInstruments ==
  /\ last = NoCall
  /\ mt # NoObject
  /\ \E request \in Requests(mt), average \in BOOLEAN, enforce_length \in BOOLEAN :
       GetAudioMixInstruments(request, average, enforce_length)
CallAudioInstruments ==
  /\ last = NoCall
  /\ mt # NoObject
  /\ \E request \in Requests(mt), average \in BOOLEAN, enforce_length \in BOOLEAN :
       GetAudioInstruments(request, average, enforce_length)
CallAudioSections ==
  \E request \in SectionRequests, average \in BOOLEAN :
    GetAudioSections(request, average)
CallScoreMixInstruments ==
  /\ last = NoCall
  /\ mt # NoObject
  /\ \E request \in Requests(mt) : GetScoreMixInstruments(request)
CallTrackAudio ==
  /\ last = NoCall
  /\ mt # NoObject
  /\ \E track_id \in DOMAIN mt.tracks : TrackAudio(track_id)
CallAudioVoice ==
  /\ last = NoCall
  /\ mt # NoObject
  /\ \E track_id \in DOMAIN mt.tracks :
       \E id_voice \in 0..mt.tracks[track_id].n_voices :
         GetAudioVoice(track_id, id_voice)

Next ==
  \/ Construct
  \/ CallTrackids
  \/ CallAudioMixInstruments
  \/ AudioMix
  \/ CallAudioInstruments
  \/ CallAudioSections
  \/ CallScoreMixInstruments
  \/ Scores
  \/ CallTrackAudio
  \/ CallAudioVoice
  \/ Return

NextIds == Construct \/ CallTrackids \/ Return

NextAudio ==
  \/ Construct
  \/ CallAudioMixInstruments
  \/ CallAudioInstruments
  \/ CallAudioSections
  \/ Return

NextScore == Construct \/ CallScoreMixInstruments \/ Return

\* the accesses to audio_mix
NextMix == Construct \/ AudioMix \/ Return

\* the accesses to the two properties
NextCache == Construct \/ AudioMix \/ Scores \/ Return

Spec == Init /\ [][Next]_vars
SpecIds == InitIds /\ [][NextIds]_vars
SpecAudio == InitAudio /\ [][NextAudio]_vars
SpecScore == InitScore /\ [][NextScore]_vars
SpecMix == InitAudio /\ [][NextMix]_vars
SpecCache == InitScore /\ [][NextCache]_vars
SpecFiles == InitFiles /\ [][Next]_vars

(***************************************************************************)
(* Properties.                                                             *)
(***************************************************************************)
StrictlyIncreasing(strs) ==
  \A i \in 1..(Len(strs) - 1) : StrLess(strs[i], strs[i + 1])

\* the request names only instruments of the piece
Resolvable(self, request) ==
  \A i \in 1..Len(AsList(request)) : AsList(request)[i] \in Range(self.instruments)

\* name occurs in the sub-track id, whatever the case of the letters
Names(tid, name) == StrIn(Lower(name), Lower(tid))

\* C1: after the construction of a MultiTrack, instruments is sorted
\* alphabetically without duplicates, sections is sorted alphabetically
\* without duplicates, the section of every instrument is in sections and
\* every section is the section of one of the instruments.
C1_InstrumentsAndSectionsSorted ==
  mt # NoObject =>
    /\ StrictlyIncreasing(mt.instruments)
    /\ StrictlyIncreasing(mt.sections)
    /\ \A i \in 1..Len(mt.instruments) :
         \E j \in 1..Len(DATASET_SECTIONS), k \in 1..Len(mt.sections) :
           DATASET_SECTIONS[j] = <<mt.instruments[i], mt.sections[k]>>
    /\ \A k \in 1..Len(mt.sections) :
         \E j \in 1..Len(DATASET_SECTIONS), i \in 1..Len(mt.instruments) :
           DATASET_SECTIONS[j] = <<mt.instruments[i], mt.sections[k]>>

C1_Witness ==
  /\ mt # NoObject
  /\ last.op = "MultiTrack"
  /\ Len(mt.instruments) = 3
  /\ mt.sections = <<brass, strings, woodwinds>>

\* C2: every instrument of a MultiTrack has at least one Track:
\* get_trackids(instrument) returns a list that is not empty and whose
\* elements are keys of tracks.
C2_InstrumentHasTrack ==
  (/\ last.op = "get_trackids"
   /\ last.args[1].str
   /\ last.args[1].v \in Range(mt.instruments))
    => /\ last.outcome.ok
       /\ last.outcome.value # <<>>
       /\ Range(last.outcome.value) \subseteq DOMAIN mt.tracks

C2_Witness ==
  /\ last.op = "get_trackids"
  /\ last.args[1].str
  /\ last.args[1].v \in Range(mt.instruments)
  /\ Len(mt.instruments) > 1
  /\ last.outcome.ok
  /\ Len(last.outcome.value) = 2

\* the sub-track ids of ids that name one of the names, in the order of ids
RECURSIVE Naming(_, _)
Naming(ids, names) ==
  IF ids = <<>> THEN <<>>
  ELSE IF \E i \in 1..Len(names) : Names(Head(ids), names[i])
       THEN <<Head(ids)>> \o Naming(Tail(ids), names)
       ELSE Naming(Tail(ids), names)

\* C3: get_trackids, given one name or a list of names of instruments of
\* the piece, returns the sub-track ids that contain one of the names
\* (case-insensitively), each once, in the sorted order of the sub-track
\* ids; a name and the list of that name give the same list.
C3_TrackidsAreTheNamingIds ==
  (last.op = "get_trackids" /\ Resolvable(mt, last.args[1]))
    => /\ last.outcome.ok
       /\ last.outcome.value = Naming(mt.mtrack_ids, AsList(last.args[1]))

\* C4: get_trackids, get_audio_mix_instruments, get_audio_instruments and
\* get_score_mix_instruments, asked for an instrument that is not one of
\* the piece, raise the assertion error and return nothing.
C4_UnresolvableRaisesAssertion ==
  (/\ last.op \in {"get_trackids", "get_audio_mix_instruments",
                   "get_audio_instruments", "get_score_mix_instruments"}
   /\ ~Resolvable(mt, last.args[1]))
    => /\ ~last.outcome.ok
       /\ last.outcome.error = "AssertionError"

\* the sub-tracks of ids all decode
AllDecode(self, ids) ==
  \A i \in 1..Len(ids) : Track_audio(self.tracks[ids[i]]).ok

\* the sample count of a sub-track
SampleCount(self, tid) == Len(Track_audio(self.tracks[tid]).value[1])

\* the sub-tracks of ids have one sample count
SameLength(self, ids) ==
  \A i, j \in 1..Len(ids) : SampleCount(self, ids[i]) = SampleCount(self, ids[j])

\* sample j of a sub-track, zero beyond its end
SampleOrZero(self, tid, j) ==
  IF j <= SampleCount(self, tid)
  THEN Track_audio(self.tracks[tid]).value[1][j]
  ELSE 0

RECURSIVE WeightedSum(_, _, _, _)
WeightedSum(self, ids, w, j) ==
  IF ids = <<>> THEN 0
  ELSE w[1] * SampleOrZero(self, ids[1], j) + WeightedSum(self, Tail(ids), Tail(w), j)

Ones(n) == [i \in 1..n |-> 1]

WeightsOr1(weights, n) == IF weights.none THEN Ones(n) ELSE weights.w

\* the mix of the sub-tracks of ids: as long as the longest of them, the
\* weighted sum of their samples, divided by their number when average
ExpectedMix(self, ids, weights, average) ==
  [j \in 1..Max({SampleCount(self, ids[i]) : i \in 1..Len(ids)}) |->
     LET sum == WeightedSum(self, ids, WeightsOr1(weights, Len(ids)), j)
     IN  IF average
         THEN CHOOSE q \in (0..sum) \X (1..Len(ids)) :
                /\ q[1] * Len(ids) = sum * q[2]
                /\ \A r \in (0..sum) \X (1..Len(ids)) :
                     r[1] * Len(ids) = sum * r[2] => q[2] <= r[2]
         ELSE <<sum, 1>>]

AllInstruments(self) == [str |-> FALSE, v |-> self.instruments]

C7_LengthPolicy ==
  (/\ last.op = "get_audio_mix_instruments"
   /\ Resolvable(mt, last.args[1])
   /\ AllDecode(mt, get_trackids(mt, last.args[1]).value))
    => LET ids == get_trackids(mt, last.args[1]).value
       IN  IF last.args[4] /\ ~SameLength(mt, ids)
           THEN /\ ~last.outcome.ok
                /\ last.outcome.error = "LengthMismatch"
           ELSE /\ last.outcome.ok
                /\ last.outcome.value = ExpectedMix(mt, ids, last.args[2], last.args[3])

C7_Witness ==
  /\ last.op = "get_audio_mix_instruments"
  /\ Resolvable(mt, last.args[1])
  /\ AllDecode(mt, get_trackids(mt, last.args[1]).value)
  /\ ~SameLength(mt, get_trackids(mt, last.args[1]).value)
  /\ ~last.args[4]
  /\ ~last.args[2].none
  /\ last.outcome.ok
  /\ Len(last.outcome.value) = MaxLen

\* what get_audio_instruments is to return for the names: nothing when the
\* sub-tracks of a name do not all decode to one sample count or the mixes
\* of two names differ in length, else the mixes side by side
StackIsExpected(self, names, weights, average, outcome) ==
  LET ids(k) == Naming(self.mtrack_ids, <<names[k]>>)
      all == Naming(self.mtrack_ids, names)
  IN  IF AllDecode(self, all)
           /\ SameLength(self, all)
      THEN /\ outcome.ok
           /\ \A j \in 1..Len(outcome.value) : Len(outcome.value[j]) = Len(names)
           /\ \A k \in 1..Len(names) :
                [j \in 1..Len(outcome.value) |-> outcome.value[j][k]]
                  = ExpectedMix(self, ids(k), weights, average)
      ELSE ~outcome.ok

\* C8 as stated: get_audio_instruments returns the mixes of the requested
\* instruments, one for each in the order of the request, along a last
\* axis, and fails when sub-tracks differ in length, whatever
\* enforce_length is.
C8_OneMixPerInstrument ==
  (last.op = "get_audio_instruments" /\ Resolvable(mt, last.args[1]))
    => StackIsExpected(mt, AsList(last.args[1]), last.args[2], last.args[3],
                       last.outcome)

\* C8 amended: the same for a request that is not the empty list; the
\* empty list fails, there is nothing to stack.
C8_OneMixPerInstrumentOfNonEmptyRequest ==
  (last.op = "get_audio_instruments" /\ Resolvable(mt, last.args[1]))
    => IF AsList(last.args[1]) = <<>>
       THEN ~last.outcome.ok
       ELSE StackIsExpected(mt, AsList(last.args[1]), last.args[2], last.args[3],
                            last.outcome)

C8_Witness ==
  /\ last.op = "get_audio_instruments"
  /\ ~last.args[1].str
  /\ Len(last.args[1].v) = 2
  /\ ~last.args[4]
  /\ last.outcome.ok
  /\ last.outcome.value[1][1] # last.outcome.value[1][2]

\* C9: get_audio_sections, asked for sections of the piece, returns the
\* mixes of the sections, one for each in the order of the request, along
\* a last axis.
C9_OneMixPerSection ==
  (/\ last.op = "get_audio_sections"
   /\ AsList(last.args[1]) # <<>>
   /\ Range(AsList(last.args[1])) \subseteq Range(mt.sections)
   /\ AllDecode(mt, mt.mtrack_ids)
   /\ SameLength(mt, mt.mtrack_ids))
    => /\ last.outcome.ok
       /\ \A j \in 1..Len(last.outcome.value) :
            Len(last.outcome.value[j]) = Len(AsList(last.args[1]))

\* the score file of an instrument of the piece
ScoreFileOf(self, name) == disk.score[index[self.mtrack_id].score[score_prefix \o name][1]]

\* how often the row occurs in the score files of the names
RowCount(self, names, row) ==
  LET files == [name \in names |-> ScoreFileOf(self, name).rows]
      occurrences == {<<name, i>> \in names \X (1..MaxRows) :
                        i <= Len(files[name]) /\ files[name][i] = row}
  IN  Cardinality(occurrences)

\* C10: get_score_mix_instruments returns events whose start times do not
\* decrease, as many as the score files of the requested instruments have
\* rows together, each event one of these rows with its start time, end
\* time and note; no other file adds an event.  Stated for a request of
\* at least one instrument whose score files have at least one row.
C10_MergedScoreIsTheRowsSorted ==
  (/\ last.op = "get_score_mix_instruments"
   /\ Resolvable(mt, last.args[1])
   /\ AsList(last.args[1]) # <<>>
   /\ \A name \in Range(AsList(last.args[1])) :
        ScoreFileOf(mt, name).exists /\ ScoreFileOf(mt, name).rows # <<>>)
    => LET names == Range(AsList(last.args[1]))
           events == last.outcome.value
       IN  /\ last.outcome.ok
           /\ Len(events.end_times) = Len(events.start_times)
           /\ Len(events.event) = Len(events.start_times)
           /\ \A i \in 1..(Len(events.start_times) - 1) :
                events.start_times[i] <= events.start_times[i + 1]
           /\ \A row \in Rows :
                Cardinality({i \in 1..Len(events.start_times) :
                               /\ events.start_times[i] = row.start
                               /\ events.end_times[i] = row.end
                               /\ events.event[i] = row.note})
                  = RowCount(mt, names, row)

\* an access that computed the full mix: audio_mix has no decorator
\* and runs get_audio_mix_instruments on every access
MixComputed == last.op = "audio_mix" /\ last.outcome.ok

\* an access that computed the full score set
ScoresComputed == last.op = "scores" /\ last.computed /\ last.outcome.ok

\* scores holds one merged score for each instrument, in their order
ScoresPerInstrument ==
  (last.op = "scores" /\ last.outcome.ok)
    => /\ Len(last.outcome.value) = Len(mt.instruments)
       /\ \A k \in 1..Len(mt.instruments) :
            Success(last.outcome.value[k])
              \in get_score_mix_instruments(mt, [str |-> TRUE, v |-> mt.instruments[k]])

\* C11: over the accesses to audio_mix and scores of one instance, the
\* full mix is computed at most once and the full score set is computed
\* at most once: no access computes what the instance has computed
\* before; scores holds one merged score for each instrument of
\* instruments, in that order.
C11_ComputedAtMostOnce ==
  /\ [][/\ MixComputed' => "audio_mix" \notin computed
        /\ ScoresComputed' => "scores" \notin computed]_vars
  /\ []ScoresPerInstrument

\* the audio files of the sub-tracks of ids
TrackFiles(self, ids) ==
  UNION {Range(self.tracks[ids[i]].audio_paths) : i \in 1..Len(ids)}

\* the audio files a mix of the request decodes: those of the sub-tracks
\* get_trackids selects
FilesOfRequest(self, request) ==
  LET ids == get_trackids(self, request)
  IN  IF ids.ok THEN TrackFiles(self, ids.value) ELSE {}

\* the audio files the mixes of the requests decode: a request that
\* get_trackids rejects ends the call
FilesOfRequests(self, requests) ==
  UNION {FilesOfRequest(self, requests[k]) :
           k \in {i \in 1..Len(requests) :
                    \A j \in 1..i : get_trackids(self, requests[j]).ok}}

\* the audio files the last call needs
NeededAudio ==
  IF last.op = "Track.audio" THEN Range(mt.tracks[last.args[1]].audio_paths)
  ELSE IF last.op = "get_audio_voice"
  THEN {mt.tracks[last.args[1]].audio_paths[i] :
          i \in {last.args[2] + 1} \cap 1..mt.tracks[last.args[1]].n_voices}
  ELSE IF last.op = "get_audio_mix_instruments" THEN FilesOfRequest(mt, last.args[1])
  ELSE IF last.op = "audio_mix" THEN FilesOfRequest(mt, AllInstruments(mt))
  ELSE IF last.op = "get_audio_instruments"
  THEN FilesOfRequests(mt, [k \in 1..Len(AsList(last.args[1])) |->
                             [str |-> TRUE, v |-> AsList(last.args[1])[k]]])
  ELSE IF last.op = "get_audio_sections"
  THEN FilesOfRequests(mt, [k \in 1..Len(AsList(last.args[1])) |->
                             [str |-> FALSE,
                              v |-> InstrumentsOfSection(AsList(last.args[1])[k])]])
  ELSE {}

\* the score files of the names
ScoreFilesOf(self, names) ==
  Range(ScorePaths(index[self.mtrack_id], StrJoin(names, <<"|">>)))

\* the score files the last call needs
NeededScore ==
  IF last.op = "get_score_mix_instruments" /\ Resolvable(mt, last.args[1])
  THEN ScoreFilesOf(mt, AsList(last.args[1]))
  ELSE IF last.op = "scores" /\ last.computed
  THEN UNION {ScoreFilesOf(mt, <<mt.instruments[k]>>) : k \in 1..Len(mt.instruments)}
  ELSE {}

\* a file the last call needs is not on the disk
NeededFileMissing ==
  \/ \E path \in NeededAudio : ~disk.audio[path].exists
  \/ \E path \in NeededScore : ~disk.score[path].exists

C13_SingleTrackMixIsItsAudio ==
  (/\ last.op = "get_audio_mix_instruments"
   /\ ~last.args[1].str
   /\ Len(last.args[1].v) = 1
   /\ Resolvable(mt, last.args[1])
   /\ last.args[2].none
   /\ last.args[3]
   /\ Len(get_trackids(mt, last.args[1]).value) = 1)
    => LET audio == Track_audio(mt.tracks[get_trackids(mt, last.args[1]).value[1]])
       IN  /\ last.outcome.ok = audio.ok
           /\ ~audio.ok => last.outcome.error = audio.error
           /\ audio.ok =>
                /\ Len(last.outcome.value) = Len(audio.value[1])
                /\ \A j \in 1..Len(audio.value[1]) :
                     last.outcome.value[j] = <<audio.value[1][j], 1>>

C13_Witness ==
  /\ last.op = "get_audio_mix_instruments"
  /\ ~last.args[1].str
  /\ Len(last.args[1].v) = 1
  /\ last.args[2].none
  /\ last.args[3]
  /\ Len(mt.mtrack_ids) = 2
  /\ Len(get_trackids(mt, last.args[1]).value) = 1
  /\ mt.tracks[get_trackids(mt, last.args[1]).value[1]].n_voices = 2
  /\ last.outcome.ok
  /\ Len(last.outcome.value) = MaxLen

====
